---- MODULE Spec2Model ----
(***************************************************************************)
(* A model of proxy.py: the caching proxy in front of the key-value store  *)
(* server.  main() accepts one client connection at a time, reads one      *)
(* command line, routes it (PUT / GET / DUMP / anything else), consults    *)
(* the time-bounded cache, forwards to the backend over a fresh socket,    *)
(* writes the reply and closes the client connection.                      *)
(*                                                                         *)
(* Python strings are modelled as sequences of one-character strings, so   *)
(* that strip('\n'), the '\n' SendText appends and the '%s' formatting are *)
(* computed as the code computes them.                                     *)
(***************************************************************************)
EXTENDS Integers, Sequences, FiniteSets, TLC

----------------------------------------------------------------------------
(* Bounds of the model *)

\* The clock stops advancing at MaxTime seconds.
MaxTime == 62
\* At most MaxConns client connections arrive in a behaviour.
MaxConns == 2
\* At most MaxPending connections wait in the listen backlog.
MaxPending == 1

\* The amounts of time, in seconds, that pass while the proxy is blocked.
Deltas == {30, 31}

----------------------------------------------------------------------------
(* Strings *)

\* Python's None: distinct from every character sequence.
None == <<"None">>

NL == <<"\n">>
SP == <<" ">>

RECURSIVE LStrip(_, _)
LStrip(s, ch) ==
    IF s # <<>> /\ Head(s) = ch THEN LStrip(Tail(s), ch) ELSE s

RECURSIVE RStrip(_, _)
RStrip(s, ch) ==
    IF s # <<>> /\ s[Len(s)] = ch THEN RStrip(SubSeq(s, 1, Len(s) - 1), ch) ELSE s

\* str.strip(chars) for a single character.
Strip(s, ch) == RStrip(LStrip(s, ch), ch)

\* str.strip(): leading and trailing blanks and newlines.
RECURSIVE StripWS(_)
StripWS(s) ==
    IF s # <<>> /\ Head(s) \in {" ", "\n"} THEN StripWS(Tail(s))
    ELSE IF s # <<>> /\ s[Len(s)] \in {" ", "\n"}
         THEN StripWS(SubSeq(s, 1, Len(s) - 1))
         ELSE s

\* The index of the first ch in s, 0 when there is none.
RECURSIVE Find(_, _, _)
Find(s, ch, i) ==
    IF i > Len(s) THEN 0 ELSE IF s[i] = ch THEN i ELSE Find(s, ch, i + 1)

\* str.split(' ')
RECURSIVE Split(_)
Split(s) ==
    LET i == Find(s, " ", 1)
    IN  IF i = 0 THEN <<s>>
        ELSE <<SubSeq(s, 1, i - 1)>> \o Split(SubSeq(s, i + 1, Len(s)))

\* ' '.join(tokens)
RECURSIVE Join(_)
Join(tokens) ==
    IF tokens = <<>> THEN <<>>
    ELSE IF Len(tokens) = 1 THEN tokens[1]
    ELSE tokens[1] \o SP \o Join(Tail(tokens))

\* The number of newline characters in a byte stream: the lines it holds.
RECURSIVE CountNL(_)
CountNL(s) ==
    IF s = <<>> THEN 0
    ELSE (IF Head(s) = "\n" THEN 1 ELSE 0) + CountNL(Tail(s))

----------------------------------------------------------------------------
(* Program constants and the protocol's vocabulary *)

\* A staleness bound one second too long, as `<` written for `<=` would give.
MAX_CACHE_AGE_SEC_Longer == 60 + 1

\* Cache values retrieved from the server for this long.
MAX_CACHE_AGE_SEC == 60

PUT == <<"P", "U", "T">>
GET == <<"G", "E", "T">>
DUMP == <<"D", "U", "M", "P">>
FROB == <<"F", "R", "O", "B">>

\* "Key does not exist!"
KeyDoesNotExist ==
    <<"K", "e", "y", " ", "d", "o", "e", "s", " ", "n", "o", "t", " ",
      "e", "x", "i", "s", "t", "!">>

\* "Unknown command "
UnknownCommandPrefix ==
    <<"U", "n", "k", "n", "o", "w", "n", " ", "c", "o", "m", "m", "a", "n", "d", " ">>

\* The keys and payloads clients use.
Keys == {<<"x">>, <<"y">>}
Payloads == {<<"5">>, <<"a", " ", "b">>}

\* The command lines a client may send, each newline-terminated.
CommandLines ==
    {PUT \o SP \o k \o SP \o v \o NL : k \in Keys, v \in Payloads}
    \cup {PUT \o SP \o k \o NL : k \in Keys}
    \cup {GET \o SP \o k \o NL : k \in Keys}
    \cup {DUMP \o NL, FROB \o SP \o <<"z">> \o NL}

\* The response lines the backend may send, each newline-terminated.
BackendLines ==
    {KeyDoesNotExist \o NL, <<"5">> \o NL, NL}

----------------------------------------------------------------------------
(* library: the command parser and the cache store *)

\* library.ParseCommand: (verb, key, payload); the tokens after the key are
\* rejoined as the payload.
ParseCommand(line) ==
    LET args == Split(StripWS(line))
    IN  << args[1],
           IF Len(args) > 1 THEN args[2] ELSE None,
           IF Len(args) > 2 THEN Join(SubSeq(args, 3, Len(args))) ELSE <<>> >>

\* KeyValueStore.StoreValue: overwrite the entry of key k with value v and the
\* current time t.  The store c is a function from its keys to entries.
StoreValue(c, k, v, t) ==
    [kk \in DOMAIN c \cup {k} |->
        IF kk = k THEN [value |-> v, writtenAt |-> t] ELSE c[kk]]

\* KeyValueStore.GetValue: the stored value when an entry exists and its age
\* is at most maxAge, None otherwise.
GetValue(c, k, maxAge, t) ==
    IF k \in DOMAIN c /\ t - c[k].writtenAt <= maxAge THEN c[k].value ELSE None

----------------------------------------------------------------------------
(* proxy.py *)

\* Python's `not v` for a string or None.
Falsy(v) == v = None \/ v = <<>>

\* SendText: what the client connection has received after sock.send.
SendText(stream, t) == stream \o t \o NL

\* 'Unknown command %s' % cmd
UnknownCommand(c) == UnknownCommandPrefix \o c

\* An if/elif chain whose else branch forwards like DUMP instead of
\* answering locally.
Route_ForwardsUnknown(c) ==
    IF c = PUT THEN "PUT" ELSE IF c = GET THEN "GET" ELSE "DUMP"

\* The branch of ProxyClientCommand's if/elif chain that a verb takes.
Route(c) ==
    IF c = PUT THEN "PUT"
    ELSE IF c = GET THEN "GET"
    ELSE IF c = DUMP THEN "DUMP"
    ELSE "unknown"

VARIABLES
    pc,            \* where main() is
    now,           \* the clock, in seconds
    cache,         \* the KeyValueStore created by main()
    pending,       \* connections waiting in the listen backlog
    handled,       \* connections whose handling has ended
    clientOpen,    \* client_sock is open
    command_line,  \* ProxyClientCommand's command_line, None before it is read
    res,           \* ForwardCommandToServer's res
    result,        \* ProxyClientCommand's result
    sent,          \* the bytes written to client_sock
    sock,          \* ForwardCommandToServer's sock: none, created, connected, closed
    wire,          \* the bytes written to sock
    exc,           \* the exception being propagated, "none" when there is none
    forwards,      \* calls of ForwardCommandToServer made for this connection
    response,      \* the line the backend answered with, None when it has not
    lookup,        \* what cache.GetValue found for this connection
    cacheBefore,   \* the cache when this connection was accepted
    endTime,       \* when the handling of the last connection ended
    prevLine,      \* the command line of the connection handled before this one
    prevEnd,       \* when the handling of that connection ended
    log            \* the values the proxy has observed, oldest first

vars == <<pc, now, cache, pending, handled, clientOpen, command_line, res,
          result, sent, sock, wire, exc, forwards, response, lookup,
          cacheBefore, endTime, prevLine, prevEnd, log>>

cmd == ParseCommand(command_line)[1]
name == ParseCommand(command_line)[2]
text == ParseCommand(command_line)[3]

NoLookup ==
    [done |-> FALSE, present |-> FALSE, age |-> 0, value |-> None, at |-> 0]

EmptyCache == [k \in {} |-> None]

Init ==
    /\ pc = "accept"
    /\ now = 0
    /\ cache = EmptyCache
    /\ pending = 0
    /\ handled = 0
    /\ clientOpen = FALSE
    /\ command_line = None
    /\ res = None
    /\ result = <<>>
    /\ sent = <<>>
    /\ sock = "none"
    /\ wire = <<>>
    /\ exc = "none"
    /\ forwards = 0
    /\ response = None
    /\ lookup = NoLookup
    /\ cacheBefore = EmptyCache
    /\ endTime = 0
    /\ prevLine = None
    /\ prevEnd = 0
    /\ log = <<>>

\* Time passes while the proxy is blocked in accept, in a read or in connect.
Tick ==
    /\ pc \in {"accept", "read", "connect", "recv"}
    /\ \E d \in Deltas : now + d <= MaxTime /\ now' = now + d
    /\ UNCHANGED <<pc, cache, pending, handled, clientOpen, command_line, res,
                   result, sent, sock, wire, exc, forwards, response, lookup,
                   cacheBefore, endTime, prevLine, prevEnd, log>>

\* A client connects to the listening port.
ClientConnects ==
    /\ pending < MaxPending
    /\ handled + pending + (IF clientOpen THEN 1 ELSE 0) < MaxConns
    /\ pending' = pending + 1
    /\ UNCHANGED <<pc, now, cache, handled, clientOpen, command_line, res,
                   result, sent, sock, wire, exc, forwards, response, lookup,
                   cacheBefore, endTime, prevLine, prevEnd, log>>

\* A main that accepts the next connection while the handler of the current
\* one is blocked on the backend, as a handler thread per connection would.
Accept_WhileBlocked ==
    /\ pc \in {"accept", "recv"}
    /\ pending > 0
    /\ pending' = pending - 1
    /\ clientOpen' = TRUE
    /\ prevLine' = command_line
    /\ prevEnd' = endTime
    /\ command_line' = None
    /\ res' = None
    /\ result' = <<>>
    /\ sent' = <<>>
    /\ sock' = "none"
    /\ wire' = <<>>
    /\ forwards' = 0
    /\ response' = None
    /\ lookup' = NoLookup
    /\ cacheBefore' = cache
    /\ pc' = "read"
    /\ UNCHANGED <<now, cache, handled, exc, endTime, log>>

\* main: library.ConnectClientToServer returns the next connection.
Accept ==
    /\ pc = "accept"
    /\ pending > 0
    /\ pending' = pending - 1
    /\ clientOpen' = TRUE
    /\ prevLine' = command_line
    /\ prevEnd' = endTime
    /\ command_line' = None
    /\ res' = None
    /\ result' = <<>>
    /\ sent' = <<>>
    /\ sock' = "none"
    /\ wire' = <<>>
    /\ forwards' = 0
    /\ response' = None
    /\ lookup' = NoLookup
    /\ cacheBefore' = cache
    /\ pc' = "read"
    /\ UNCHANGED <<now, cache, handled, exc, endTime, log>>

\* ProxyClientCommand: library.ReadCommand and library.ParseCommand.
ReadCommand ==
    /\ pc = "read"
    /\ \E line \in CommandLines : command_line' = line
    /\ result' = <<>>
    /\ pc' = "route"
    /\ UNCHANGED <<now, cache, pending, handled, clientOpen, res, sent, sock,
                   wire, exc, forwards, response, lookup, cacheBefore, endTime,
                   prevLine, prevEnd, log>>

\* A PutCommand that relays the PUT without storing the value in the cache.
PutCommand_NoStore ==
    /\ pc = "route"
    /\ Route(cmd) = "PUT"
    /\ log' = Append(log, [kind |-> "PUT", key |-> name, value |-> text])
    /\ forwards' = forwards + 1
    /\ pc' = "connect"
    /\ UNCHANGED <<now, cache, pending, handled, clientOpen, command_line, res,
                   result, sent, sock, wire, exc, response, lookup, cacheBefore,
                   endTime, prevLine, prevEnd>>

\* PutCommand: store the value in the cache, then call ForwardCommandToServer.
PutCommand ==
    /\ pc = "route"
    /\ Route(cmd) = "PUT"
    /\ cache' = StoreValue(cache, name, text, now)
    /\ log' = Append(log, [kind |-> "PUT", key |-> name, value |-> text])
    /\ forwards' = forwards + 1
    /\ pc' = "connect"
    /\ UNCHANGED <<now, pending, handled, clientOpen, command_line, res, result,
                   sent, sock, wire, exc, response, lookup, cacheBefore, endTime,
                   prevLine, prevEnd>>

\* GetCommand: look the key up; answer from the cache unless `not res`.
GetCommand ==
    /\ pc = "route"
    /\ Route(cmd) = "GET"
    /\ LET r == GetValue(cache, name, MAX_CACHE_AGE_SEC, now)
       IN  /\ lookup' = IF name \in DOMAIN cache
                        THEN [done |-> TRUE, present |-> TRUE,
                              age |-> now - cache[name].writtenAt,
                              value |-> cache[name].value, at |-> now]
                        ELSE [done |-> TRUE, present |-> FALSE, age |-> 0,
                              value |-> None, at |-> now]
           /\ IF Falsy(r)
              THEN /\ forwards' = forwards + 1
                   /\ pc' = "connect"
                   /\ UNCHANGED result
              ELSE /\ result' = r
                   /\ pc' = "reply"
                   /\ UNCHANGED forwards
    /\ UNCHANGED <<now, cache, pending, handled, clientOpen, command_line, res,
                   sent, sock, wire, exc, response, cacheBefore, endTime,
                   prevLine, prevEnd, log>>

\* A DUMP branch that answers from the proxy's own store, as a call of
\* DumpCommand(cache) would, instead of forwarding to the backend.
DumpRoute_Local ==
    /\ pc = "route"
    /\ Route(cmd) = "DUMP"
    /\ result' = <<>>
    /\ lookup' = [NoLookup EXCEPT !.done = TRUE, !.at = now]
    /\ pc' = "reply"
    /\ UNCHANGED <<now, cache, pending, handled, clientOpen, command_line, res,
                   sent, sock, wire, exc, forwards, response, cacheBefore,
                   endTime, prevLine, prevEnd, log>>

\* ProxyClientCommand, cmd == 'DUMP': call ForwardCommandToServer.
DumpRoute ==
    /\ pc = "route"
    /\ Route(cmd) = "DUMP"
    /\ forwards' = forwards + 1
    /\ pc' = "connect"
    /\ UNCHANGED <<now, cache, pending, handled, clientOpen, command_line, res,
                   result, sent, sock, wire, exc, response, lookup, cacheBefore,
                   endTime, prevLine, prevEnd, log>>

\* ProxyClientCommand, else: SendText(sock, 'Unknown command %s' % cmd).
\* sock.send raises when the client has reset the connection.
UnknownRoute ==
    /\ pc = "route"
    /\ Route(cmd) = "unknown"
    /\ \/ /\ sent' = SendText(sent, UnknownCommand(cmd))
          /\ pc' = "reply"
          /\ UNCHANGED exc
       \/ /\ exc' = "socket.error"
          /\ pc' = "finally"
          /\ UNCHANGED sent
    /\ UNCHANGED <<now, cache, pending, handled, clientOpen, command_line, res,
                   result, forwards, sock, wire, response, lookup,
                   cacheBefore, endTime, prevLine, prevEnd, log>>

\* ForwardCommandToServer: socket.socket and sock.connect, outside the try.
Connect ==
    /\ pc = "connect"
    /\ res' = None
    /\ \/ /\ sock' = "connected"
          /\ pc' = "sendall"
          /\ UNCHANGED exc
       \/ /\ sock' = "created"
          /\ exc' = "socket.error"
          /\ pc' = "finally"
    /\ UNCHANGED <<now, cache, pending, handled, clientOpen, command_line,
                   result, sent, wire, forwards, response, lookup, cacheBefore,
                   endTime, prevLine, prevEnd, log>>

\* ForwardCommandToServer: sock.sendall(command_line.encode()).
SendAll ==
    /\ pc = "sendall"
    /\ \/ /\ wire' = wire \o command_line
          /\ pc' = "recv"
          /\ UNCHANGED exc
       \/ /\ exc' = "socket.error"
          /\ pc' = "sockclose"
          /\ UNCHANGED wire
    /\ UNCHANGED <<now, cache, pending, handled, clientOpen, command_line, res,
                   result, sent, sock, forwards, response, lookup, cacheBefore,
                   endTime, prevLine, prevEnd, log>>

\* ForwardCommandToServer: res = library.ReadCommand(sock).strip('\n').
Recv ==
    /\ pc = "recv"
    /\ \/ /\ \E line \in BackendLines :
                /\ response' = line
                /\ res' = Strip(line, "\n")
                /\ log' = IF Route(cmd) = "GET"
                             /\ (~lookup.present \/ lookup.age > MAX_CACHE_AGE_SEC)
                             /\ Strip(line, "\n") # KeyDoesNotExist
                          THEN Append(log, [kind |-> "GET", key |-> name,
                                            value |-> Strip(line, "\n")])
                          ELSE log
          /\ pc' = "sockclose"
          /\ UNCHANGED exc
       \/ /\ exc' = "socket.error"
          /\ pc' = "sockclose"
          /\ UNCHANGED <<res, response, log>>
    /\ UNCHANGED <<now, cache, pending, handled, clientOpen, command_line,
                   result, sent, sock, wire, forwards, lookup, cacheBefore,
                   endTime, prevLine, prevEnd>>

\* A ForwardCommandToServer that tries once more after a failed send or
\* receive.
SockClose_Retry ==
    /\ pc = "sockclose"
    /\ sock' = "closed"
    /\ IF exc # "none" /\ forwards < 2
       THEN /\ exc' = "none"
            /\ forwards' = forwards + 1
            /\ pc' = "connect"
       ELSE /\ pc' = IF exc # "none" THEN "finally" ELSE "returned"
            /\ UNCHANGED <<exc, forwards>>
    /\ UNCHANGED <<now, cache, pending, handled, clientOpen, command_line, res,
                   result, sent, wire, response, lookup, cacheBefore, endTime,
                   prevLine, prevEnd, log>>

\* ForwardCommandToServer: finally sock.close(), then return res or re-raise.
SockClose ==
    /\ pc = "sockclose"
    /\ sock' = "closed"
    /\ pc' = IF exc # "none" THEN "finally" ELSE "returned"
    /\ UNCHANGED <<now, cache, pending, handled, clientOpen, command_line, res,
                   result, sent, wire, exc, forwards, response, lookup,
                   cacheBefore, endTime, prevLine, prevEnd, log>>

\* PutCommand returns what ForwardCommandToServer returned.
PutReturn ==
    /\ pc = "returned"
    /\ Route(cmd) = "PUT"
    /\ result' = res
    /\ pc' = "reply"
    /\ UNCHANGED <<now, cache, pending, handled, clientOpen, command_line, res,
                   sent, sock, wire, exc, forwards, response, lookup,
                   cacheBefore, endTime, prevLine, prevEnd, log>>

\* A GetCommand that stores the value just fetched, StoreValue(name, res),
\* where the code names the undefined `text`.
GetReturn_StoresResponse ==
    /\ pc = "returned"
    /\ Route(cmd) = "GET"
    /\ cache' = IF res # KeyDoesNotExist
                THEN StoreValue(cache, name, res, now)
                ELSE cache
    /\ result' = res
    /\ pc' = "reply"
    /\ UNCHANGED <<now, pending, handled, clientOpen, command_line, res, sent,
                   sock, wire, exc, forwards, response, lookup, cacheBefore,
                   endTime, prevLine, prevEnd, log>>

\* A GetCommand without the sentinel test: it goes on to the store, and to
\* its NameError, whatever the backend answered.
GetReturn_NoSentinelTest ==
    /\ pc = "returned"
    /\ Route(cmd) = "GET"
    /\ exc' = "NameError"
    /\ pc' = "finally"
    /\ UNCHANGED <<now, cache, pending, handled, clientOpen, command_line, res,
                   result, sent, sock, wire, forwards, response, lookup,
                   cacheBefore, endTime, prevLine, prevEnd, log>>

\* GetCommand after the forward: cache.StoreValue(name, text) names `text`,
\* which is no local of GetCommand and no global of the module: NameError.
GetReturn ==
    /\ pc = "returned"
    /\ Route(cmd) = "GET"
    /\ IF res # KeyDoesNotExist
       THEN /\ exc' = "NameError"
            /\ pc' = "finally"
            /\ UNCHANGED result
       ELSE /\ result' = res
            /\ pc' = "reply"
            /\ UNCHANGED exc
    /\ UNCHANGED <<now, cache, pending, handled, clientOpen, command_line, res,
                   sent, sock, wire, forwards, response, lookup, cacheBefore,
                   endTime, prevLine, prevEnd, log>>

\* ProxyClientCommand, cmd == 'DUMP': result is what the forward returned.
DumpReturn ==
    /\ pc = "returned"
    /\ Route(cmd) = "DUMP"
    /\ result' = res
    /\ pc' = "reply"
    /\ UNCHANGED <<now, cache, pending, handled, clientOpen, command_line, res,
                   sent, sock, wire, exc, forwards, response, lookup,
                   cacheBefore, endTime, prevLine, prevEnd, log>>

\* ProxyClientCommand: the final SendText(sock, result).  sock.send raises
\* when the client has reset the connection.
Reply ==
    /\ pc = "reply"
    /\ \/ /\ sent' = SendText(sent, result)
          /\ UNCHANGED exc
       \/ /\ exc' = "socket.error"
          /\ UNCHANGED sent
    /\ pc' = "finally"
    /\ UNCHANGED <<now, cache, pending, handled, clientOpen, command_line, res,
                   result, sock, wire, forwards, response, lookup,
                   cacheBefore, endTime, prevLine, prevEnd, log>>

\* A main without the finally: client_sock.close() runs only when
\* ProxyClientCommand returns.
ClientClose_NoFinally ==
    /\ pc = "finally"
    /\ clientOpen' = (exc # "none")
    /\ handled' = handled + 1
    /\ endTime' = now
    /\ pc' = IF exc # "none" THEN "terminated" ELSE "accept"
    /\ UNCHANGED <<now, cache, pending, command_line, res, result, sent, sock,
                   wire, exc, forwards, response, lookup, cacheBefore, prevLine,
                   prevEnd, log>>

\* main: finally client_sock.close(); an exception then leaves the while loop
\* and ends the process, otherwise the loop accepts the next connection.
ClientClose ==
    /\ pc = "finally"
    /\ clientOpen' = FALSE
    /\ handled' = handled + 1
    /\ endTime' = now
    /\ pc' = IF exc # "none" THEN "terminated" ELSE "accept"
    /\ UNCHANGED <<now, cache, pending, command_line, res, result, sent, sock,
                   wire, exc, forwards, response, lookup, cacheBefore, prevLine,
                   prevEnd, log>>

Next ==
    \/ Tick
    \/ ClientConnects
    \/ Accept
    \/ ReadCommand
    \/ PutCommand
    \/ GetCommand
    \/ DumpRoute
    \/ UnknownRoute
    \/ Connect
    \/ SendAll
    \/ Recv
    \/ SockClose
    \/ PutReturn
    \/ GetReturn
    \/ DumpReturn
    \/ Reply
    \/ ClientClose

Spec == Init /\ [][Next]_vars

----------------------------------------------------------------------------
(* Vocabulary of the properties.  They name verbs, the 60 second bound and  *)
(* the wire format directly, not through the operators that model proxy.py. *)

\* The handling of the current connection has ended: client_sock is closed.
Ended == handled > 0 /\ ~clientOpen /\ command_line # None

\* The current connection's command has verb v.
IsVerb(v) == command_line # None /\ cmd = v

\* The verb, key and payload of the connection handled before this one.
prevCmd == ParseCommand(prevLine)[1]
prevName == ParseCommand(prevLine)[2]
prevText == ParseCommand(prevLine)[3]

\* A newline-terminated line without its terminator.
LineOf(line) == SubSeq(line, 1, Len(line) - 1)

\* The first line of a byte stream, terminator included.
FirstLine(s) == SubSeq(s, 1, Find(s, "\n", 1))

\* t occurs in s.
Contains(s, t) ==
    \E i \in 1..(Len(s) - Len(t) + 1) : SubSeq(s, i, i + Len(t) - 1) = t

\* The lookup of the current GET found no entry, or one older than 60 s.
Missed == lookup.done /\ (~lookup.present \/ lookup.age > 60)

\* The lookup of the current GET found an entry at most 60 s old.
Fresh == lookup.done /\ lookup.present /\ lookup.age <= 60

\* The socket error of the current connection was raised inside
\* ForwardCommandToServer: a forward was made and no response was read.
BackendFailed == exc = "socket.error" /\ forwards > 0 /\ response = None

\* The socket error of the current connection was raised by sock.send on the
\* client connection: no forward was made, or the forward had returned.
ClientSendFailed == exc = "socket.error" /\ (forwards = 0 \/ response # None)

----------------------------------------------------------------------------
(* Claims *)

\* C1 (as claimed): read-your-write.  When the connection handled just before
\* was a PUT(k, v) that returned, and this connection is a GET(k) looked up
\* less than 60 seconds after that return, from a client whose connection
\* took the reply, the client receives exactly the line v and no call of
\* ForwardCommandToServer was made, for every v, the empty string included.
C1_ReadYourWrite ==
    (Ended /\ IsVerb(GET) /\ lookup.done /\ ~ClientSendFailed
       /\ prevLine # None /\ prevCmd = PUT /\ prevName = name
       /\ lookup.at - prevEnd < 60)
    => (sent = prevText \o NL /\ forwards = 0)

\* C2 (as claimed): a GET that misses the cache makes exactly one backend
\* round trip, and when the backend's response r is not the sentinel the
\* client receives r and the cache maps the key to r afterwards.
C2_GetMissFetches ==
    (Ended /\ IsVerb(GET) /\ Missed)
    => /\ forwards = 1
       /\ (response # None /\ LineOf(response) # KeyDoesNotExist)
          => /\ sent = response
             /\ name \in DOMAIN cache
             /\ cache[name].value = LineOf(response)

\* C3 (as claimed): whenever the cache holds an entry for the key at most 60
\* seconds old, GET replies with that entry's value and makes no backend
\* call, whatever the stored value is, the empty string included (the
\* client's connection taking the reply).
C3_HitServedFromCache ==
    (Ended /\ IsVerb(GET) /\ Fresh /\ ~ClientSendFailed)
    => (sent = lookup.value \o NL /\ forwards = 0)

\* C4: staleness bound.  A GET is answered from the cache (a reply with no
\* call of ForwardCommandToServer) only when the entry found was written at
\* most 60 seconds before the lookup, and the reply is then that entry's
\* value; whenever the entry is absent or older than 60 seconds the GET
\* calls ForwardCommandToServer, which creates a socket to the backend.
C4_StalenessBound ==
    (IsVerb(GET) /\ lookup.done)
    => /\ Missed => (forwards = 1 /\ (pc = "connect" \/ sock # "none"))
       /\ (forwards = 0 /\ sent # <<>>)
          => (Fresh /\ sent = lookup.value \o NL)

\* C4 witness: a GET found an entry older than 60 seconds and went to the
\* backend.
C4_Witness ==
    /\ Ended /\ IsVerb(GET)
    /\ lookup.present /\ lookup.age > 60
    /\ forwards = 1 /\ sock = "closed"

\* C5 (as claimed): handling PUT(k, v) calls ForwardCommandToServer exactly
\* once, whatever the cache held for k; the only bytes written to the
\* backend socket are the original command line; the cache entry of k holds
\* v afterwards; and whenever the backend answered, the client received
\* exactly the backend's line.
C5_PutForwardsOnce ==
    (Ended /\ IsVerb(PUT))
    => /\ forwards = 1
       /\ wire \in {<<>>, command_line}
       /\ (response # None => wire = command_line)
       /\ name \in DOMAIN cache
       /\ cache[name].value = text
       /\ (response # None => sent = response)

\* C5 (amended): handling PUT(k, v) calls ForwardCommandToServer exactly
\* once, whatever the cache held for k; the only bytes written to the
\* backend socket are the original command line; the cache entry of k holds
\* v afterwards; and when the backend answered, the client received exactly
\* the backend's line if the send on the client connection succeeded, and
\* nothing if that send raised.
C5_PutForwardsOnce_Amended ==
    (Ended /\ IsVerb(PUT))
    => /\ forwards = 1
       /\ wire \in {<<>>, command_line}
       /\ (response # None => wire = command_line)
       /\ name \in DOMAIN cache
       /\ cache[name].value = text
       /\ (response # None /\ exc = "none") => sent = response
       /\ (response # None /\ exc # "none") => (ClientSendFailed /\ sent = <<>>)

\* C5 witness: a PUT on a key whose entry was stale, answered by the backend
\* and relayed.
C5_Witness ==
    /\ Ended /\ IsVerb(PUT)
    /\ name \in DOMAIN cacheBefore
    /\ cache[name].writtenAt - cacheBefore[name].writtenAt > 60
    /\ response # None /\ sent = response /\ wire = command_line
    /\ exc = "none"

\* C6: handling DUMP never looks the cache up and never changes it, whether
\* or not the backend call succeeds, and once the handling has ended exactly
\* one call of ForwardCommandToServer has been made.
C6_DumpLeavesCache ==
    IsVerb(DUMP)
    => /\ cache = cacheBefore
       /\ ~lookup.done
       /\ (Ended => forwards = 1)

\* C6 witness: a DUMP against a non-empty cache whose backend call failed.
C6_Witness ==
    /\ Ended /\ IsVerb(DUMP)
    /\ DOMAIN cache # {}
    /\ BackendFailed
    /\ forwards = 1

\* C7 (as claimed): for every command whose line was read, from a client
\* whose connection took what the proxy sent, exactly one newline-terminated
\* line has been written to the client connection when the connection is
\* closed.
C7_ExactlyOneLine ==
    (Ended /\ ~ClientSendFailed) => CountNL(sent) = 1

\* C8 (as claimed): a command whose verb is not PUT, GET or DUMP makes no
\* call of ForwardCommandToServer, creates no backend socket, leaves the
\* cache as it was, and the first line replied to the client contains the
\* verb.
C8_UnknownVerb ==
    (Ended /\ cmd \notin {PUT, GET, DUMP})
    => /\ forwards = 0
       /\ sock = "none"
       /\ wire = <<>>
       /\ cache = cacheBefore
       /\ Contains(LineOf(FirstLine(sent)), cmd)

\* C8 (amended): a command whose verb is not PUT, GET or DUMP makes no call
\* of ForwardCommandToServer, creates no backend socket and leaves the cache
\* as it was; whenever anything was written to the client, the first line
\* written contains the verb, and nothing was written only when the send on
\* the client connection raised.
C8_UnknownVerb_Amended ==
    (Ended /\ cmd \notin {PUT, GET, DUMP})
    => /\ forwards = 0
       /\ sock = "none"
       /\ wire = <<>>
       /\ cache = cacheBefore
       /\ sent # <<>> => Contains(LineOf(FirstLine(sent)), cmd)
       /\ sent = <<>> => ClientSendFailed

\* C8 witness: FROB was handled against a non-empty cache.
C8_Witness ==
    /\ Ended /\ cmd = FROB
    /\ DOMAIN cache # {}
    /\ forwards = 0
    /\ Contains(sent, FROB)

\* C9 (as claimed): a failure while contacting the backend does not
\* terminate the proxy process.
C9_BackendFailureSurvived ==
    BackendFailed => pc # "terminated"

\* C10 (as claimed): when the backend is unreachable (connect fails) and the
\* GET missed the cache, then once the handling has ended the client has
\* received one response line, the client connection is closed and the
\* cache is as it was before the GET.
C10_UnreachableReported ==
    (Ended /\ IsVerb(GET) /\ Missed /\ exc = "socket.error" /\ sock = "created")
    => /\ CountNL(sent) = 1
       /\ ~clientOpen
       /\ cache = cacheBefore

\* C11 (as claimed): while the handler of one connection is suspended
\* waiting for the backend's response, another client connection that has
\* arrived can be accepted.
C11_AcceptWhileSuspended ==
    (pc = "recv" /\ pending > 0) => ENABLED Accept

\* C12 (as claimed): once a call of ForwardCommandToServer has returned or
\* raised, the socket that call created is closed.
C12_SocketReleased ==
    (forwards > 0 /\ pc \notin {"connect", "sendall", "recv", "sockclose"})
    => sock = "closed"

\* C13: in PUT(k, v) the cache write precedes the forward.  From the moment
\* ForwardCommandToServer is called, so whenever the backend is contacted,
\* the cache maps k to v, and it still does when the forward has failed.
C13_PutStoresFirst ==
    (IsVerb(PUT) /\ pc \notin {"read", "route"})
    => /\ name \in DOMAIN cache
       /\ cache[name].value = text
       /\ cache[name].writtenAt <= now

\* C13 witness: the forward of a PUT on a key the cache did not hold failed,
\* and the cache holds the payload.
C13_Witness ==
    /\ Ended /\ IsVerb(PUT)
    /\ BackendFailed
    /\ name \notin DOMAIN cacheBefore
    /\ name \in DOMAIN cache /\ cache[name].value = text

\* C14 (as claimed): when a GET went to the backend and the response is
\* exactly the sentinel "Key does not exist!", the cache is left as it was
\* and the one line replied to the client is the sentinel.
C14_SentinelNotCached ==
    (IsVerb(GET) /\ response # None /\ LineOf(response) = KeyDoesNotExist)
    => /\ cache = cacheBefore
       /\ (Ended => sent = KeyDoesNotExist \o NL)

\* C14 (amended): when a GET went to the backend and the response is exactly
\* the sentinel "Key does not exist!", the cache is left as it was; once the
\* handling has ended the client has received the sentinel as the one line
\* if the send on the client connection succeeded, and nothing if that send
\* raised.
C14_SentinelNotCached_Amended ==
    (IsVerb(GET) /\ response # None /\ LineOf(response) = KeyDoesNotExist)
    => /\ cache = cacheBefore
       /\ Ended => \/ exc = "none" /\ sent = KeyDoesNotExist \o NL
                   \/ ClientSendFailed /\ sent = <<>>

\* C14 witness: a GET on a key whose entry was stale got the sentinel; the
\* stale entry is still there, not refreshed.
C14_Witness ==
    /\ Ended /\ IsVerb(GET) /\ Missed /\ lookup.present
    /\ response = KeyDoesNotExist \o NL
    /\ sent = response
    /\ exc = "none"
    /\ cache = cacheBefore

\* C15: no retry and no reuse.  The handling of one client command calls
\* ForwardCommandToServer at most once, and at most one line, the command
\* line, is written to the backend, also when the backend call fails.
C15_NoRetry ==
    /\ forwards <= 1
    /\ CountNL(wire) <= 1
    /\ wire \in {<<>>, command_line}

\* C15 witness: the command line was sent, the receive failed, and the
\* handling ended after that single forward.
C15_Witness ==
    /\ Ended
    /\ exc = "socket.error"
    /\ sock = "closed"
    /\ wire = command_line
    /\ response = None
    /\ forwards = 1

\* The last value the proxy observed for key k: the payload of the latest
\* PUT(k, _) or the non-sentinel response of the latest GET(k) miss,
\* whichever is later; None when it observed none.
RECURSIVE LatestObserved(_, _)
LatestObserved(k, i) ==
    IF i = 0 THEN None
    ELSE IF log[i].key = k THEN log[i].value
    ELSE LatestObserved(k, i - 1)

\* The keys the proxy has observed a value for.
ObservedKeys == {log[i].key : i \in 1..Len(log)}

\* No command is being handled.
Idle == pc \in {"accept", "terminated"}

\* C16 (as claimed): whenever no command is being handled, the cache holds
\* an entry exactly for the keys the proxy has observed a value for, and
\* the entry's value is the most recent value observed for the key.
C16_CacheIsLatestObserved ==
    Idle => /\ DOMAIN cache = ObservedKeys
            /\ \A k \in ObservedKeys : cache[k].value = LatestObserved(k, Len(log))

\* C17: every value the cache holds for a key is the payload of a PUT on
\* that key that the proxy received earlier, and while a GET, a DUMP or an
\* unrecognized verb is handled the cache stays as it was when the
\* connection was accepted.
C17_OnlyPutWritesCache ==
    /\ \A k \in DOMAIN cache :
          \E i \in 1..Len(log) :
             /\ log[i].kind = "PUT"
             /\ log[i].key = k
             /\ log[i].value = cache[k].value
    /\ (command_line # None /\ cmd # PUT) => cache = cacheBefore

\* C17 witness: a GET missed a non-empty cache, the backend answered a value
\* that is not the sentinel, and the cache is as it was.
C17_Witness ==
    /\ Ended /\ IsVerb(GET) /\ Missed
    /\ response # None /\ LineOf(response) # KeyDoesNotExist
    /\ DOMAIN cache # {}
    /\ cache = cacheBefore

\* C18: whenever no command is being handled, the client connection
\* accepted last is closed, whether ProxyClientCommand returned or raised.
C18_ClientClosed ==
    Idle => ~clientOpen

\* C18 witness: the handling ended by the NameError, which is no backend
\* failure, and the client connection is closed.
C18_Witness ==
    /\ pc = "terminated"
    /\ exc = "NameError"
    /\ handled > 0
    /\ ~clientOpen

\* C19: at most one client connection is handled at a time.  A step that
\* takes a connection from the listen backlog is taken only when main() is
\* in its accept call and the connection accepted before it is closed; and
\* the cache changes only in steps of the one open connection's handler.
C19_OneAtATime ==
    [][/\ (pending' < pending) => (pc = "accept" /\ ~clientOpen /\ clientOpen')
       /\ (cache' # cache) => (clientOpen /\ clientOpen' /\ pc = "route")]_vars

\* C19 witness: a second connection waits in the backlog while the first is
\* being handled and blocked on the backend.
C19_Witness ==
    /\ pc = "recv"
    /\ clientOpen
    /\ pending > 0

====
